---- MODULE Spec2Model ----
(***************************************************************************)
(* Model of the `zip` kernel of arrow-select (arrow-select/src/zip.rs):    *)
(* a boolean mask selects, position by position, between a truthy and a    *)
(* falsy operand, each either a full-length array or a one-element scalar. *)
(* One call of zip is followed step by step: validation, creation of the   *)
(* MutableArrayData builder, one closure invocation per slice of the       *)
(* SlicesIterator, the remaining falsy part, and freeze.                   *)
(***************************************************************************)
EXTENDS Integers, Sequences, FiniteSets, TLC

\* Longest mask and longest operand array that is explored.
MaxLen == 3

\* ------------------------------------------------------------------------
\* Values

DataTypes == {"Int32", "Utf8"}

NullElem == [valid |-> FALSE, value |-> 0]

Elem(v) == [valid |-> TRUE, value |-> v]

\* All arrays of length 0..MaxLen with at most one null slot, whose valid
\* slot i (0-based) holds the value base + i, so that every valid slot of
\* every operand carries a value that identifies its operand and position.
Columns(base) ==
  UNION { { [i \in 1..n |-> IF i = z THEN NullElem ELSE Elem(base + i - 1)]
            : z \in 0..n } : n \in 0..MaxLen }

\* A slot of a BooleanArray: the validity bit and the value bit stored
\* underneath it (the value bit of a null slot is arbitrary).
MaskSlots == [valid : BOOLEAN, value : BOOLEAN]

Masks == UNION { [1..n -> MaskSlots] : n \in 0..MaxLen }

\* What Datum::get gives for an operand: the array and the scalar flag.
Datums(base) ==
  { [data_type |-> dt, is_scalar |-> sc, data |-> d]
    : dt \in DataTypes, sc \in BOOLEAN, d \in Columns(base) }

\* ------------------------------------------------------------------------
\* Validation (zip.rs, lines 92-117)

ErrType == "arguments need to have the same data type"

ErrScalar == "scalar arrays must have 1 element"

ErrLen == "all arrays should have the same length"

ValidateTruthyFirstUnflagged(m, t, f) ==
  IF t.data_type # f.data_type THEN ErrType
  ELSE IF Len(t.data) # 1 THEN ErrScalar
  ELSE IF ~t.is_scalar /\ Len(t.data) # Len(m) THEN ErrLen
  ELSE IF f.is_scalar /\ Len(f.data) # 1 THEN ErrScalar
  ELSE IF ~f.is_scalar /\ Len(f.data) # Len(m) THEN ErrLen
  ELSE "ok"

ValidateFalsyFirst(m, t, f) ==
  IF t.data_type # f.data_type THEN ErrType
  ELSE IF f.is_scalar /\ Len(f.data) # 1 THEN ErrScalar
  ELSE IF ~f.is_scalar /\ Len(f.data) # Len(m) THEN ErrLen
  ELSE IF t.is_scalar /\ Len(t.data) # 1 THEN ErrScalar
  ELSE IF ~t.is_scalar /\ Len(t.data) # Len(m) THEN ErrLen
  ELSE "ok"

Validate(m, t, f) ==
  IF t.data_type # f.data_type THEN ErrType
  ELSE IF t.is_scalar /\ Len(t.data) # 1 THEN ErrScalar
  ELSE IF ~t.is_scalar /\ Len(t.data) # Len(m) THEN ErrLen
  ELSE IF f.is_scalar /\ Len(f.data) # 1 THEN ErrScalar
  ELSE IF ~f.is_scalar /\ Len(f.data) # Len(m) THEN ErrLen
  ELSE "ok"

\* ------------------------------------------------------------------------
\* Run extractor: the (start, end) intervals of the maximal runs of
\* selected mask positions, left to right, 0-based and half-open.

MaskBitIgnoringValidity(m, i) == m[i + 1].value

\* A position is selected when it is valid and true; null counts as false.
MaskBit(m, i) == m[i + 1].valid /\ m[i + 1].value

RECURSIVE RunEnd(_, _)
RunEnd(m, i) ==
  IF i < Len(m) /\ MaskBit(m, i) THEN RunEnd(m, i + 1) ELSE i

RECURSIVE SlicesFrom(_, _)
SlicesFrom(m, i) ==
  IF i >= Len(m) THEN << >>
  ELSE IF MaskBit(m, i)
       THEN << <<i, RunEnd(m, i)>> >> \o SlicesFrom(m, RunEnd(m, i))
       ELSE SlicesFrom(m, i + 1)

SlicesIterator(m) == SlicesFrom(m, 0)

\* ------------------------------------------------------------------------
\* Builder: MutableArrayData over the two sources, index 0 = truthy and
\* index 1 = falsy.  `extends` records the extend calls in order.

NoBuilder ==
  [created |-> FALSE, sources |-> << >>, capacity |-> 0,
   buf |-> << >>, extends |-> << >>]

\* MutableArrayData::new(vec![&truthy, &falsy], false, truthy.len())
NewBuilder(m, t, f) ==
  [created |-> TRUE, sources |-> <<t.data, f.data>>,
   capacity |-> Len(t.data), buf |-> << >>, extends |-> << >>]

\* mutable.extend(k, start, end): append slots [start, end) of source k.
Extend(mut, k, start, end) ==
  [mut EXCEPT !.buf = @ \o SubSeq(mut.sources[k + 1], start + 1, end),
              !.extends = Append(@, <<k, start, end>>)]

\* for _ in a..b { mutable.extend(k, 0, 1) } with n = b - a iterations.
RECURSIVE ExtendScalar(_, _, _)
ExtendScalar(mut, k, n) ==
  IF n <= 0 THEN mut ELSE ExtendScalar(Extend(mut, k, 0, 1), k, n - 1)

\* mutable.freeze() and make_array
Freeze(mut, dt) == [data_type |-> dt, data |-> mut.buf]

\* ------------------------------------------------------------------------
\* The copy phase (zip.rs, lines 128-163)

FillFalsyPerElement(mut, from, to, fs) ==
  IF fs THEN ExtendScalar(mut, 1, to - from)
  ELSE LET RECURSIVE One(_, _)
           One(mm, i) == IF i >= to THEN mm ELSE One(Extend(mm, 1, i, i + 1), i + 1)
       IN One(mut, from)

\* The falsy fill of [from, to): one extend per slot for a scalar, one
\* extend of the whole range for an array.
FillFalsy(mut, from, to, fs) ==
  IF fs THEN ExtendScalar(mut, 1, to - from)
  ELSE Extend(mut, 1, from, to)

FillTruthyScalarShort(mut, start, end, ts) ==
  IF ts THEN ExtendScalar(mut, 0, 1)
  ELSE Extend(mut, 0, start, end)

FillTruthy(mut, start, end, ts) ==
  IF ts THEN ExtendScalar(mut, 0, end - start)
  ELSE Extend(mut, 0, start, end)

ClosureKeepFilled(st, span, ts, fs) ==
  LET start == span[1]
      end == span[2]
      gap == IF start > st.filled
             THEN FillFalsy(st.mutable, st.filled, start, fs)
             ELSE st.mutable
  IN [mutable |-> FillTruthy(gap, start, end, ts), filled |-> start]

ClosureSkipsLeadingGap(st, span, ts, fs) ==
  LET start == span[1]
      end == span[2]
      gap == IF st.filled > 0 /\ start > st.filled
             THEN FillFalsy(st.mutable, st.filled, start, fs)
             ELSE st.mutable
  IN [mutable |-> FillTruthy(gap, start, end, ts), filled |-> end]

\* The closure given to for_each, applied to one (start, end).
Closure(st, span, ts, fs) ==
  LET start == span[1]
      end == span[2]
      gap == IF start > st.filled
             THEN FillFalsy(st.mutable, st.filled, start, fs)
             ELSE st.mutable
  IN [mutable |-> FillTruthy(gap, start, end, ts), filled |-> end]

RemainingAlways(st, n, fs) ==
  IF st.filled <= n
  THEN FillFalsy(st.mutable, st.filled, n, fs)
  ELSE st.mutable

RemainingDropped(st, n, fs) ==
  IF st.filled < n /\ st.filled > 0
  THEN FillFalsy(st.mutable, st.filled, n, fs)
  ELSE st.mutable

\* The remaining part after the last slice is falsy.
Remaining(st, n, fs) ==
  IF st.filled < n
  THEN FillFalsy(st.mutable, st.filled, n, fs)
  ELSE st.mutable

RECURSIVE ForEachAll(_, _, _, _)
ForEachAll(st, sl, ts, fs) ==
  IF sl = << >> THEN st
  ELSE ForEachAll(Closure(st, Head(sl), ts, fs), Tail(sl), ts, fs)

NoResult == [tag |-> "none", msg |-> "", array |-> [data_type |-> "", data |-> << >>]]

Err(msg) == [tag |-> "Err", msg |-> msg, array |-> [data_type |-> "", data |-> << >>]]

Ok(arr) == [tag |-> "Ok", msg |-> "", array |-> arr]

\* zip as a function of its three arguments.
Zip(m, t, f) ==
  IF Validate(m, t, f) # "ok" THEN Err(Validate(m, t, f))
  ELSE LET st0 == [mutable |-> NewBuilder(m, t, f), filled |-> 0]
           st1 == ForEachAll(st0, SlicesIterator(m), t.is_scalar, f.is_scalar)
           mut == Remaining(st1, Len(m), f.is_scalar)
       IN Ok(Freeze(mut, t.data_type))

\* ------------------------------------------------------------------------
\* State of one call

VARIABLES mask, truthy, falsy, pc, slices, filled, mutable, result

vars == <<mask, truthy, falsy, pc, slices, filled, mutable, result>>

Init ==
  /\ mask \in Masks
  /\ truthy \in Datums(10)
  /\ falsy \in Datums(20)
  /\ pc = "validate"
  /\ slices = << >>
  /\ filled = 0
  /\ mutable = NoBuilder
  /\ result = NoResult

\* lines 92-117
Validation ==
  /\ pc = "validate"
  /\ IF Validate(mask, truthy, falsy) = "ok"
     THEN pc' = "new_builder" /\ result' = result
     ELSE pc' = "err" /\ result' = Err(Validate(mask, truthy, falsy))
  /\ UNCHANGED <<mask, truthy, falsy, slices, filled, mutable>>

\* lines 119-130: the builder, the cursor and the iterator are created
CreateBuilder ==
  /\ pc = "new_builder"
  /\ mutable' = NewBuilder(mask, truthy, falsy)
  /\ filled' = 0
  /\ slices' = SlicesIterator(mask)
  /\ pc' = "for_each"
  /\ UNCHANGED <<mask, truthy, falsy, result>>

\* lines 130-152: the closure runs on the next (start, end)
ForEach ==
  /\ pc = "for_each"
  /\ slices # << >>
  /\ LET st == Closure([mutable |-> mutable, filled |-> filled], Head(slices),
                       truthy.is_scalar, falsy.is_scalar)
     IN mutable' = st.mutable /\ filled' = st.filled
  /\ slices' = Tail(slices)
  /\ UNCHANGED <<mask, truthy, falsy, pc, result>>

\* lines 153-163: the iterator is exhausted, the remaining part is falsy
RemainingPart ==
  /\ pc = "for_each"
  /\ slices = << >>
  /\ mutable' = Remaining([mutable |-> mutable, filled |-> filled], Len(mask),
                          falsy.is_scalar)
  /\ pc' = "freeze"
  /\ UNCHANGED <<mask, truthy, falsy, slices, filled, result>>

\* lines 165-166
Finish ==
  /\ pc = "freeze"
  /\ result' = Ok(Freeze(mutable, truthy.data_type))
  /\ pc' = "done"
  /\ UNCHANGED <<mask, truthy, falsy, slices, filled, mutable>>

Next == Validation \/ CreateBuilder \/ ForEach \/ RemainingPart \/ Finish

Spec == Init /\ [][Next]_vars

\* ------------------------------------------------------------------------
\* Vocabulary of the properties

N == Len(mask)

Out == result.array.data

NoNulls(m) == \A i \in 1..Len(m) : m[i].valid

\* The slot an operand contributes at position i (0-based): its single
\* slot when it is a scalar, its slot i otherwise.
SourceElem(op, i) == IF op.is_scalar THEN op.data[1] ELSE op.data[i + 1]

\* The source index a mask slot selects: 0 (truthy) where the mask is true,
\* 1 (falsy) where it is false or null.
Src(i) == IF mask[i + 1].valid /\ mask[i + 1].value THEN 0 ELSE 1

Operand(k) == IF k = 0 THEN truthy ELSE falsy

\* arrow's `not` on a mask: the value bits are flipped, validity is kept.
NotMask(m) == [i \in 1..Len(m) |-> [valid |-> m[i].valid, value |-> ~m[i].value]]

TypeMismatch == truthy.data_type # falsy.data_type

MalformedScalar(op) == op.is_scalar /\ Len(op.data) # 1

LengthMismatch(op) == ~op.is_scalar /\ Len(op.data) # N

Invalid ==
  \/ TypeMismatch
  \/ MalformedScalar(truthy) \/ MalformedScalar(falsy)
  \/ LengthMismatch(truthy) \/ LengthMismatch(falsy)

\* Number of slices the closure has already been applied to.
Consumed == Len(SlicesIterator(mask)) - Len(slices)

\* Number of slots the first j extend calls have appended.
RECURSIVE Appended(_, _)
Appended(log, j) ==
  IF j = 0 THEN 0 ELSE Appended(log, j - 1) + (log[j][3] - log[j][2])

\* The maximal blocks [s, e) of mask positions that select source k.
Blocks(k) ==
  { b \in (0..N) \X (0..N) :
      /\ b[1] < b[2]
      /\ \A i \in b[1]..(b[2] - 1) : Src(i) = k
      /\ b[1] = 0 \/ Src(b[1] - 1) # k
      /\ b[2] = N \/ Src(b[2]) # k }

ExtendsOf(k) == { j \in 1..Len(mutable.extends) : mutable.extends[j][1] = k }

\* ------------------------------------------------------------------------
\* Properties

\* C1: with a mask without null slots, every output slot i equals the
\* truthy operand's slot (its single slot when scalar) where mask[i] is
\* true and the falsy operand's slot otherwise, null-ness included.
C1_Selection ==
  (pc = "done" /\ NoNulls(mask)) =>
    /\ Len(Out) = N
    /\ \A i \in 0..(N - 1) :
         Out[i + 1] = IF mask[i + 1].value THEN SourceElem(truthy, i)
                      ELSE SourceElem(falsy, i)

C1_Witness ==
  /\ pc = "done" /\ NoNulls(mask) /\ N >= 3
  /\ truthy.is_scalar /\ ~falsy.is_scalar
  /\ \E i, j \in 1..N : mask[i].value /\ ~mask[j].value /\ ~Out[j].valid
  /\ \E i \in 1..N : Out[i].valid

\* C2: a null mask slot takes the falsy operand's slot whatever value bit
\* lies under it, and the output slot is null only if that falsy slot is.
C2_NullMaskIsFalse ==
  pc = "done" =>
    /\ Len(Out) = N
    /\ \A i \in 0..(N - 1) :
         ~mask[i + 1].valid => Out[i + 1] = SourceElem(falsy, i)

C2_Witness ==
  /\ pc = "done"
  /\ \E i, j \in 1..N :
       /\ ~mask[i].valid /\ mask[i].value
       /\ Out[i].valid /\ Out[i] # SourceElem(truthy, i - 1)
       /\ mask[j].valid /\ mask[j].value

\* C3: a call that passes validation returns a column of exactly the
\* mask's length.
C3_Length ==
  pc = "done" => (result.tag = "Ok" /\ Len(Out) = N)

C3_Witness ==
  /\ pc = "done" /\ N >= 2
  /\ truthy.is_scalar /\ falsy.is_scalar
  /\ \A i \in 1..N : ~(mask[i].valid /\ mask[i].value)

\* C4: zip fails exactly when the types differ, a scalar operand has a
\* length other than 1 or an array operand a length other than N; a failed
\* call has created no builder and issued no extend, any other call ends Ok.
C4_ErrorIff ==
  /\ pc # "validate" => ((pc = "err") <=> Invalid)
  /\ (result.tag = "Err") <=> (pc = "err")
  /\ pc = "err" => (~mutable.created /\ mutable.extends = << >>
                    /\ mutable.buf = << >> /\ Out = << >>)
  /\ pc = "done" => result.tag = "Ok"
  /\ ~(ENABLED Next) => pc \in {"err", "done"}

C4_Witness ==
  /\ pc = "err" /\ ~TypeMismatch
  /\ ~truthy.is_scalar /\ Len(truthy.data) = N
  /\ LengthMismatch(falsy)

\* C5 as stated: the reported error is the first violated condition in the
\* order type mismatch, malformed scalar (either operand), length mismatch
\* (either operand).
C5_GlobalOrder ==
  pc = "err" =>
    result.msg = IF TypeMismatch THEN ErrType
                 ELSE IF MalformedScalar(truthy) \/ MalformedScalar(falsy)
                      THEN ErrScalar
                      ELSE ErrLen

\* C5 amended: the order is type mismatch, then the truthy operand's shape
\* (malformed scalar when flagged scalar, length mismatch otherwise), then
\* the falsy operand's shape.
C5_OperandOrder ==
  pc = "err" =>
    result.msg = IF TypeMismatch THEN ErrType
                 ELSE IF MalformedScalar(truthy) THEN ErrScalar
                 ELSE IF LengthMismatch(truthy) THEN ErrLen
                 ELSE IF MalformedScalar(falsy) THEN ErrScalar
                 ELSE ErrLen

C5_Witness ==
  /\ pc = "err" /\ ~TypeMismatch
  /\ MalformedScalar(truthy) /\ LengthMismatch(falsy)
  /\ result.msg = ErrScalar

\* C6: the cursor stays within [0, N] and never decreases; after each
\* slice (start, end) the builder holds exactly the positions [0, end) and
\* filled = end; every array range is written at the output positions it
\* names; after the remaining part the builder holds exactly [0, N).
C6_StateInv ==
  /\ filled \in 0..N
  /\ pc = "for_each" =>
       /\ Len(mutable.buf) = filled
       /\ filled = IF Consumed = 0 THEN 0
                   ELSE SlicesIterator(mask)[Consumed][2]
  /\ pc \in {"freeze", "done"} => Len(mutable.buf) = N
  /\ \A j \in 1..Len(mutable.extends) :
       LET e == mutable.extends[j]
           at == Appended(mutable.extends, j - 1)
       IN /\ ~Operand(e[1]).is_scalar => e[2] = at
          /\ \A i \in at..(at + (e[3] - e[2]) - 1) : i < N /\ Src(i) = e[1]

C6_Partition == [](C6_StateInv) /\ [][filled' >= filled]_vars

C6_Witness ==
  /\ pc = "for_each" /\ Consumed = 1 /\ slices # << >>
  /\ filled > 0 /\ Len(mutable.buf) = filled

\* C7: the builder is created with capacity N, and the finished column's
\* length equals that capacity.
C7_CapacityIsMaskLen ==
  /\ mutable.created => mutable.capacity = N
  /\ pc = "done" => Len(Out) = mutable.capacity

\* C8: an array operand receives exactly one extend per maximal block of
\* positions selecting it, covering exactly that block; a scalar operand
\* receives one extend of [0, 1) per position selecting it; with two array
\* operands and R runs of true there are at most 2R + 1 extends.
C8_PerRun ==
  pc \in {"freeze", "done"} =>
    /\ \A k \in {0, 1} :
         IF Operand(k).is_scalar
         THEN /\ \A j \in ExtendsOf(k) : mutable.extends[j] = <<k, 0, 1>>
              /\ Cardinality(ExtendsOf(k))
                   = Cardinality({ i \in 0..(N - 1) : Src(i) = k })
         ELSE /\ { <<mutable.extends[j][2], mutable.extends[j][3]>>
                   : j \in ExtendsOf(k) } = Blocks(k)
              /\ Cardinality(ExtendsOf(k)) = Cardinality(Blocks(k))
    /\ (~truthy.is_scalar /\ ~falsy.is_scalar) =>
         Len(mutable.extends) <= 2 * Cardinality(Blocks(0)) + 1

C8_Witness ==
  /\ pc = "done" /\ ~truthy.is_scalar /\ falsy.is_scalar
  /\ \E j \in ExtendsOf(0) : mutable.extends[j][3] - mutable.extends[j][2] >= 2
  /\ Cardinality(ExtendsOf(1)) >= 1

\* C9: with a mask without null slots, zip(m, a, b) and zip(not m, b, a)
\* are the same column, null-ness included.
C9_Swap ==
  (pc = "done" /\ NoNulls(mask)) =>
    /\ Zip(NotMask(mask), falsy, truthy).tag = "Ok"
    /\ Zip(NotMask(mask), falsy, truthy).array.data = Out

C9_Witness ==
  /\ pc = "done" /\ NoNulls(mask) /\ N >= 2
  /\ truthy.is_scalar /\ ~falsy.is_scalar
  /\ \E i, j \in 1..N : mask[i].value /\ ~mask[j].value
  /\ \E i \in 1..N : ~Out[i].valid

\* C10: every extend issued after validation is non-empty and within its
\* source, a scalar source is only ever read as [0, 1), and an empty mask
\* issues no extend.
C10_InBounds ==
  /\ \A j \in 1..Len(mutable.extends) :
       LET e == mutable.extends[j]
       IN /\ e[1] \in {0, 1}
          /\ 0 <= e[2] /\ e[2] < e[3] /\ e[3] <= Len(Operand(e[1]).data)
          /\ Operand(e[1]).is_scalar => (e[2] = 0 /\ e[3] = 1)
  /\ N = 0 => mutable.extends = << >>

C10_Witness ==
  /\ pc = "done" /\ truthy.is_scalar /\ ~falsy.is_scalar
  /\ \E j \in ExtendsOf(0) : TRUE
  /\ \E j \in ExtendsOf(1) : mutable.extends[j][3] = N /\ mutable.extends[j][2] > 0

====
